---- MODULE Spec2Model ----
(***************************************************************************)
(* Model of the POST /generate handler of the binaural renderer server     *)
(* (the express application held in src/verify_beats.js, lines 220-459).   *)
(*                                                                         *)
(* Numbers.  A JavaScript number is a record [t, v]: t is "fin", "nan",    *)
(* "inf" or "ninf", and for a finite number v is its value in thousandths  *)
(* (420 Hz is 420000, a gain of 0.25 is 250, 1800 s is 1800000).           *)
(* A raw form field is a record [k, v]: k is the kind of text the client   *)
(* sent ("undefined" when the field is absent) and v the value, in         *)
(* thousandths, of a decimal text.                                         *)
(***************************************************************************)
EXTENDS Integers, Sequences, FiniteSets, TLC

VARIABLES
  body,         \* req.body: the raw form fields
  hasMusic,     \* !!req.file
  pc,           \* position of the async handler
  carrier, beatStart, beatEnd, durationSec, toneGain, musicGain, fadeSec,
  probe,        \* state of the promise of probeDurationSec
  probeCalls,   \* number of invocations of probeDurationSec
  probeOut,     \* what the ffprobe process did (kept once it has settled)
  plan,         \* what the signal graph was built from (dur, k, avgBeat, label)
  headers,      \* set of <<name, value>> given to res.setHeader
  ff,           \* the renderer child process
  exitCode,     \* the code the renderer's 'close' event carries
  stderr,       \* captured error stream of the renderer
  chunks,       \* chunks the renderer has written to its stdout
  piped,        \* ff.stdout is piped into res
  listening,    \* abort is registered on res 'close' and 'error'
  res,          \* the HTTP response (closed, errored: the event has reached
                \* abort; destroyed: the connection is gone)
  rmCount,      \* calls of fs.rm on the temp upload
  killCalls,    \* calls of ff.kill
  killSignal,   \* signal of the last ff.kill
  errResponses  \* calls of res.status(500).json

paramVars == <<carrier, beatStart, beatEnd, durationSec, toneGain, musicGain, fadeSec>>
probeVars == <<probe, probeCalls, probeOut>>
ffVars    == <<ff, exitCode, stderr, chunks>>
resVars   == <<piped, listening, res, errResponses>>
cleanVars == <<rmCount, killCalls, killSignal>>
vars == <<body, hasMusic, pc, paramVars, probeVars, plan, headers,
          ffVars, resVars, cleanVars>>

----------------------------------------------------------------------------
(* Bounds *)

\* most form fields one request supplies (the others are absent)
MaxSupplied == 2
\* most chunks the renderer writes to its stdout
MaxChunks == 2

----------------------------------------------------------------------------
(* JavaScript numbers and conversions *)

Fin(n) == [t |-> "fin", v |-> n]
NaN    == [t |-> "nan", v |-> 0]
PosInf == [t |-> "inf", v |-> 0]
NegInf == [t |-> "ninf", v |-> 0]

Milli(n) == n * 1000

Min(a, b) == IF a < b THEN a ELSE b
Max(a, b) == IF a > b THEN a ELSE b

isFinite(x) == x.t = "fin"

Absent      == [k |-> "undefined", v |-> 0]
Decimal(n)  == [k |-> "decimal", v |-> n]
NonNumeric  == { [k |-> kk, v |-> 0] : kk \in {"empty", "text", "NaN", "Infinity", "-Infinity"} }

\* Number(value) for an absent field or a string
Number(value) ==
  CASE value.k = "undefined" -> NaN
    [] value.k = "empty"     -> Fin(0)
    [] value.k = "text"      -> NaN
    [] value.k = "NaN"       -> NaN
    [] value.k = "Infinity"  -> PosInf
    [] value.k = "-Infinity" -> NegInf
    [] value.k = "decimal"   -> Fin(value.v)

\* parseFloat(out.trim())
parseFloat(out) ==
  CASE out.k = "undefined" -> NaN
    [] out.k = "empty"     -> NaN
    [] out.k = "text"      -> NaN
    [] out.k = "NaN"       -> NaN
    [] out.k = "Infinity"  -> PosInf
    [] out.k = "-Infinity" -> NegInf
    [] out.k = "decimal"   -> Fin(out.v)

\* Math.round of a value in thousandths (halves go up)
MathRound(n) == ((n + 500) \div 1000) * 1000

\* three decimals without the trailing zeros
Frac(f) ==
  IF f % 100 = 0 THEN ToString(f \div 100)
  ELSE IF f % 10 = 0 THEN (IF f < 100 THEN "0" ELSE "") \o ToString(f \div 10)
  ELSE (IF f < 10 THEN "00" ELSE IF f < 100 THEN "0" ELSE "") \o ToString(f)

\* String(x) of a number
String(x) ==
  CASE x.t = "nan"  -> "NaN"
    [] x.t = "inf"  -> "Infinity"
    [] x.t = "ninf" -> "-Infinity"
    [] x.t = "fin"  ->
         LET a == IF x.v < 0 THEN 0 - x.v ELSE x.v
         IN  (IF x.v < 0 THEN "-" ELSE "")
             \o ToString(a \div 1000)
             \o (IF a % 1000 = 0 THEN "" ELSE "." \o Frac(a % 1000))

\* x.toFixed(2).replace(/\./g, 'p') of a non-negative number
toFixedP(x) ==
  LET c == (x.v + 5) \div 10
  IN  ToString(c \div 100) \o "p"
      \o (IF c % 100 < 10 THEN "0" ELSE "") \o ToString(c % 100)

----------------------------------------------------------------------------
(* Pure helpers of the server *)

\* num(value, def, min, max): clamp & parse a numeric field
num(value, def, min, max) ==
  LET v == Number(value)
  IN  IF ~isFinite(v) THEN def
      ELSE Fin(Min(Max(v.v, min), max))

bandLabelOpenBeta(beatHz) ==
  IF beatHz > 2 * Milli(12) /\ beatHz < 2 * Milli(20) THEN "Beta"
  ELSE IF beatHz >= 2 * Milli(8) /\ beatHz < 2 * Milli(12) THEN "Alpha"
  ELSE IF beatHz >= 2 * Milli(4) /\ beatHz < 2 * Milli(8) THEN "Theta"
  ELSE IF beatHz < 2 * Milli(4) THEN "Delta"
  ELSE "Custom"

\* bandLabel(beatHz); beatHz is held in half thousandths, so that the
\* average (bs + be) / 2 of two values in thousandths is the integer bs + be
bandLabel(beatHz) ==
  IF beatHz >= 2 * Milli(12) /\ beatHz <= 2 * Milli(20) THEN "Beta"
  ELSE IF beatHz >= 2 * Milli(8) /\ beatHz < 2 * Milli(12) THEN "Alpha"
  ELSE IF beatHz >= 2 * Milli(4) /\ beatHz < 2 * Milli(8) THEN "Theta"
  ELSE IF beatHz < 2 * Milli(4) THEN "Delta"
  ELSE "Custom"

\* the ffprobe process: it fails to start (err), or closes with a code after
\* writing out to its stdout
ProbeRuns ==
  { [err |-> TRUE, code |-> 0, out |-> [k |-> "empty", v |-> 0]] } \cup
  { [err |-> FALSE, code |-> 1, out |-> o] : o \in { [k |-> "empty", v |-> 0], Decimal(Milli(600)) } } \cup
  { [err |-> FALSE, code |-> 0, out |-> o] :
      o \in { [k |-> "empty", v |-> 0], [k |-> "text", v |-> 0],
              Decimal(Milli(45)), Decimal(Milli(600) + 500), Decimal(Milli(600) + 499),
              Decimal(Milli(9000)) } }

\* probeDurationSec: how the promise settles for one run of the process
probeDurationSec(run) ==
  IF run.err THEN [ok |-> FALSE, sec |-> NaN]
  ELSE IF run.code # 0 THEN [ok |-> FALSE, sec |-> NaN]
  ELSE LET sec == parseFloat(run.out)
       IN  IF ~isFinite(sec) THEN [ok |-> FALSE, sec |-> NaN]
           ELSE [ok |-> TRUE, sec |-> sec]

----------------------------------------------------------------------------
(* Requests *)

Fields == {"carrier", "beatStart", "beatEnd", "durationSec", "toneGain", "musicGain", "fadeSec"}

HzTexts   == { Decimal(Milli(50)), Decimal(Milli(440) + 500), Decimal(Milli(2000)) }
BeatTexts == { Decimal(0 - Milli(1)), Decimal(0), Decimal(2), Decimal(Milli(4)), Decimal(Milli(8)),
               Decimal(Milli(12) - 2), Decimal(Milli(12)), Decimal(Milli(28)),
               Decimal(Milli(40)), Decimal(Milli(41)) }
DurTexts  == { Decimal(Milli(30)), Decimal(Milli(600)), Decimal(Milli(600) + 500), Decimal(Milli(9000)) }
GainTexts == { Decimal(0 - 500), Decimal(500), Decimal(Milli(2)) }
FadeTexts == { Decimal(0), Decimal(Milli(5)), Decimal(Milli(11)) }

\* the texts a client may send in one field
RawValues(f) ==
  NonNumeric \cup
  CASE f = "carrier"     -> HzTexts
    [] f = "beatStart"   -> BeatTexts
    [] f = "beatEnd"     -> BeatTexts
    [] f = "durationSec" -> DurTexts
    [] f = "toneGain"    -> GainTexts
    [] f = "musicGain"   -> GainTexts
    [] f = "fadeSec"     -> FadeTexts

AllRaw == UNION { RawValues(f) : f \in Fields }

NoFields == [f \in Fields |-> Absent]

\* the requests whose whole life (render, stream, disconnect) is followed
Requests ==
  { NoFields,
    [NoFields EXCEPT !["durationSec"] = Decimal(Milli(600))],
    [NoFields EXCEPT !["durationSec"] = Decimal(Milli(30))],
    [NoFields EXCEPT !["durationSec"] = [k |-> "text", v |-> 0]],
    [NoFields EXCEPT !["durationSec"] = [k |-> "empty", v |-> 0]],
    [NoFields EXCEPT !["carrier"] = [k |-> "empty", v |-> 0]],
    [NoFields EXCEPT !["carrier"] = Decimal(Milli(420)), !["beatStart"] = Decimal(Milli(8)),
                     !["beatEnd"] = Decimal(Milli(12)), !["durationSec"] = Decimal(Milli(600))] }

----------------------------------------------------------------------------
(* State after the request has been received (multer has stored the upload) *)

NoRun  == [err |-> FALSE, code |-> 0, out |-> Absent]
NoPlan == [built |-> FALSE, dur |-> NaN, kNum |-> 0, kDen |-> NaN,
           avgBeat |-> 0, label |-> "", filename |-> "", probe |-> "none"]
NoJson == [error |-> "", details |-> ""]

InitRest ==
  /\ pc = "start"
  /\ carrier = NaN /\ beatStart = NaN /\ beatEnd = NaN /\ durationSec = NaN
  /\ toneGain = NaN /\ musicGain = NaN /\ fadeSec = NaN
  /\ probe = "none" /\ probeCalls = 0 /\ probeOut = NoRun
  /\ plan = NoPlan
  /\ headers = {}
  /\ ff = "none" /\ exitCode = "unset" /\ stderr = "" /\ chunks = 0
  /\ piped = FALSE /\ listening = FALSE
  /\ res = [headersSent |-> FALSE, statusCode |-> 200, finished |-> FALSE,
            bodyBytes |-> 0, json |-> NoJson, closed |-> FALSE, errored |-> FALSE,
            destroyed |-> FALSE]
  /\ errResponses = 0
  /\ rmCount = 0 /\ killCalls = 0 /\ killSignal = "none"

Init ==
  /\ body \in Requests
  /\ hasMusic \in BOOLEAN
  /\ InitRest

\* every request that supplies at most MaxSupplied fields
InitResolve ==
  /\ \E S \in SUBSET Fields :
       /\ Cardinality(S) <= MaxSupplied
       /\ \E g \in [S -> AllRaw] :
            /\ \A f \in S : g[f] \in RawValues(f)
            /\ body = [f \in Fields |-> IF f \in S THEN g[f] ELSE Absent]
  /\ hasMusic \in BOOLEAN
  /\ InitRest

----------------------------------------------------------------------------
(* The synchronous part of the handler up to the response headers *)

\* Parse inputs; a duration that is not finite starts the probe when music
\* was uploaded (the handler then waits for the promise)
ParseInputs ==
  /\ pc = "start"
  /\ carrier'   = num(body["carrier"],   Fin(Milli(420)), Milli(100), Milli(1000))
  /\ beatStart' = num(body["beatStart"], Fin(Milli(12)),  0, Milli(40))
  /\ beatEnd'   = num(body["beatEnd"],   Fin(Milli(14)),  0, Milli(40))
  /\ toneGain'  = num(body["toneGain"],  Fin(250), 0, Milli(1))
  /\ musicGain' = num(body["musicGain"], Fin(350), 0, Milli(1))
  /\ fadeSec'   = num(body["fadeSec"],   Fin(Milli(3)), 0, Milli(10))
  /\ LET d == num(body["durationSec"], NaN, Milli(60), Milli(7200))
     IN  /\ durationSec' = d
         /\ IF ~isFinite(d) /\ hasMusic
            THEN /\ pc' = "probing"
                 /\ probe' = "pending"
                 /\ probeCalls' = probeCalls + 1
            ELSE /\ pc' = "resolved"
                 /\ UNCHANGED <<probe, probeCalls>>
  /\ UNCHANGED <<body, hasMusic, probeOut, plan, headers, ffVars, resVars, cleanVars>>

\* the probe settles and the handler resumes: round and clamp, or fall back
ProbeSettles ==
  /\ pc = "probing" /\ probe = "pending"
  /\ \E run \in ProbeRuns :
       LET r == probeDurationSec(run)
       IN  /\ probeOut' = run
           /\ probe' = IF r.ok THEN "resolved" ELSE "rejected"
           /\ durationSec' = IF r.ok
                             THEN Fin(Min(Max(MathRound(r.sec.v), Milli(60)), Milli(7200)))
                             ELSE Fin(Milli(1800))
  /\ pc' = "resolved"
  /\ UNCHANGED <<body, hasMusic, carrier, beatStart, beatEnd, toneGain, musicGain, fadeSec,
                 probeCalls, plan, headers, ffVars, resVars, cleanVars>>

keepDuration(d) == d

\* if still not set (no music + no duration), default 30 min
defaultDuration(d) == IF ~isFinite(d) THEN Fin(Milli(1800)) ELSE d

\* the file name of the attachment (no filenameHint is sent, the hint is
\* the label; "<uuid>" stands for uuidv4())
fileName(label, bs, be, dur) ==
  label \o "_"
  \o (IF bs = be THEN toFixedP(be) \o "Hz" ELSE toFixedP(bs) \o "-" \o toFixedP(be) \o "Hz")
  \o "_" \o ToString((dur.v + Milli(30)) \div Milli(60)) \o "min_<uuid>.wav"

\* slope, tone generator, filter chains, average beat, label and file name
BuildGraph ==
  /\ pc = "resolved"
  /\ LET dur     == defaultDuration(durationSec)
         avgBeat == beatStart.v + beatEnd.v
         label   == bandLabel(avgBeat)
     IN  /\ durationSec' = dur
         /\ plan' = [built |-> TRUE, dur |-> dur,
                     kNum |-> beatEnd.v - beatStart.v, kDen |-> dur,
                     avgBeat |-> avgBeat, label |-> label,
                     filename |-> fileName(label, beatStart, beatEnd, dur),
                     probe |-> probe]
  /\ pc' = "built"
  /\ UNCHANGED <<body, hasMusic, carrier, beatStart, beatEnd, toneGain, musicGain, fadeSec,
                 probeVars, headers, ffVars, resVars, cleanVars>>

metadataHeadersRawDuration(p) ==
  { <<"Content-Type", "audio/wav">>,
    <<"Content-Disposition", "attachment; filename=\"" \o p.filename \o "\"">>,
    <<"X-Beat-Start-Hz", String(beatStart)>>,
    <<"X-Beat-End-Hz", String(beatEnd)>>,
    <<"X-Carrier-Hz", String(carrier)>>,
    <<"X-Duration-Sec", String(Number(body["durationSec"]))>>,
    <<"X-Sample-Rate", "48000">>,
    <<"X-Bit-Depth", "24">>,
    <<"X-Session-Label", p.label>> }

\* metadata headers + attachment
metadataHeaders(p) ==
  { <<"Content-Type", "audio/wav">>,
    <<"Content-Disposition", "attachment; filename=\"" \o p.filename \o "\"">>,
    <<"X-Beat-Start-Hz", String(beatStart)>>,
    <<"X-Beat-End-Hz", String(beatEnd)>>,
    <<"X-Carrier-Hz", String(carrier)>>,
    <<"X-Duration-Sec", String(p.dur)>>,
    <<"X-Sample-Rate", "48000">>,
    <<"X-Bit-Depth", "24">>,
    <<"X-Session-Label", p.label>> }

SetHeaders ==
  /\ pc = "built"
  /\ headers' = metadataHeaders(plan)
  /\ pc' = "headers"
  /\ UNCHANGED <<body, hasMusic, paramVars, probeVars, plan, ffVars, resVars, cleanVars>>

----------------------------------------------------------------------------
(* Cleanup and error responses *)

cleanupNoRemove(n) == n

\* cleanup(): one fs.rm of the temp upload when music was uploaded;
\* n is the number of fs.rm calls made so far
cleanup(n) == IF hasMusic THEN n + 1 ELSE n

json500HeadersUnsent(r, error, details) ==
  [r EXCEPT !.statusCode = 500, !.finished = TRUE,
            !.json = [error |-> error, details |-> details]]

\* res.status(500).json({ error, details })
json500(r, error, details) ==
  [r EXCEPT !.statusCode = 500, !.headersSent = TRUE, !.finished = TRUE,
            !.json = [error |-> error, details |-> details]]

----------------------------------------------------------------------------
(* Spawn and stream *)

\* spawn(FFMPEG, args): the process starts, or the executable cannot be
\* started (the 'error' event is queued for the next tick), or spawn throws
\* and the catch block of the handler runs.  In the first two cases the
\* stderr, 'close'/'error' listeners and the pipe are set up.
SpawnFfmpeg ==
  /\ pc = "headers"
  /\ \E outcome \in {"started", "enoent", "throws"} :
       IF outcome = "throws"
       THEN /\ pc' = "caught"
            /\ rmCount' = cleanup(rmCount)
            /\ IF ~res.headersSent
               THEN /\ res' = json500(res, "Server error", "")
                    /\ errResponses' = errResponses + 1
               ELSE UNCHANGED <<res, errResponses>>
            /\ UNCHANGED <<ff, piped, listening>>
       ELSE /\ pc' = "listening"
            /\ ff' = IF outcome = "started" THEN "running" ELSE "errPending"
            /\ piped' = TRUE
            /\ listening' = TRUE
            /\ UNCHANGED <<res, errResponses, rmCount>>
  /\ UNCHANGED <<body, hasMusic, paramVars, probeVars, plan, headers,
                 exitCode, stderr, chunks, killCalls, killSignal>>

\* the renderer writes diagnostics: stderr += d.toString()
StderrData ==
  /\ ff = "running" /\ stderr = ""
  /\ stderr' = "ffmpeg: error"
  /\ UNCHANGED <<body, hasMusic, pc, paramVars, probeVars, plan, headers,
                 ff, exitCode, chunks, resVars, cleanVars>>

\* the renderer writes a chunk; the pipe writes it to the response, which
\* sends the headers (status 200) with the first one
\* A response that was destroyed before the pipe was set up refuses the
\* chunk (write returns false and never drains): the pipe pauses stdout, and
\* the renderer blocks on its next write unless the rest of its output fits
\* in the buffers.
StdoutData ==
  /\ ff = "running" /\ chunks < MaxChunks
  /\ chunks' = chunks + 1
  /\ IF piped /\ res.destroyed
     THEN /\ \E blocks \in BOOLEAN : ff' = IF blocks THEN "stalled" ELSE ff
          /\ UNCHANGED res
     ELSE /\ IF piped /\ ~res.finished
             THEN res' = [res EXCEPT !.headersSent = TRUE, !.bodyBytes = @ + 1]
             ELSE UNCHANGED res
          /\ UNCHANGED ff
  /\ UNCHANGED <<body, hasMusic, pc, paramVars, probeVars, plan, headers,
                 exitCode, stderr, piped, listening, errResponses, cleanVars>>

\* the renderer ends by itself, with status 0 or not
FfExit ==
  /\ ff = "running"
  /\ \E code \in {"0", "1"} : exitCode' = code
  /\ ff' = "exited"
  /\ UNCHANGED <<body, hasMusic, pc, paramVars, probeVars, plan, headers,
                 stderr, chunks, resVars, cleanVars>>

\* stdout of the ended renderer ends; the pipe ends the response (res.end()
\* sends the headers when nothing was written before)
StdoutEnd ==
  /\ ff = "exited"
  /\ ff' = "drained"
  /\ IF piped /\ ~res.finished
     THEN res' = [res EXCEPT !.headersSent = TRUE, !.finished = TRUE]
     ELSE UNCHANGED res
  /\ UNCHANGED <<body, hasMusic, pc, paramVars, probeVars, plan, headers,
                 exitCode, stderr, chunks, piped, listening, errResponses, cleanVars>>

abortGraceful ==
  /\ killCalls' = killCalls + 1
  /\ killSignal' = "SIGTERM"
  /\ UNCHANGED <<ff, exitCode>>
  /\ rmCount' = cleanup(rmCount)

\* abort(): ff.kill('SIGKILL'), which ends a running renderer at once (its
\* 'close' event then carries code null), and cleanup()
abort ==
  /\ killCalls' = killCalls + 1
  /\ killSignal' = "SIGKILL"
  /\ IF ff = "running"
     THEN ff' = "exited" /\ exitCode' = "null"
     ELSE UNCHANGED <<ff, exitCode>>
  /\ rmCount' = cleanup(rmCount)

\* the client goes away while the handler awaits the probe: the response is
\* destroyed and emits 'close', which has no listener yet (abort is
\* registered after the spawn), so nothing runs
ClientGoneEarly ==
  /\ pc = "probing"
  /\ ~res.destroyed
  /\ res' = [res EXCEPT !.destroyed = TRUE]
  /\ UNCHANGED <<body, hasMusic, pc, paramVars, probeVars, plan, headers,
                 ffVars, piped, listening, errResponses, cleanVars>>

\* res 'error': abort; the pipe unpipes from a destination that errors
ResError ==
  /\ listening /\ ff # "errPending"
  /\ ~res.destroyed /\ ~res.errored
  /\ abort
  /\ res' = [res EXCEPT !.errored = TRUE]
  /\ piped' = FALSE
  /\ UNCHANGED <<body, hasMusic, pc, paramVars, probeVars, plan, headers,
                 stderr, chunks, listening, errResponses>>

\* res 'close' (the client went away, or the response is complete): abort;
\* the pipe unpipes from a destination that closes
ResClose ==
  /\ listening /\ ff # "errPending"
  /\ ~res.destroyed
  /\ abort
  /\ res' = [res EXCEPT !.closed = TRUE, !.destroyed = TRUE]
  /\ piped' = FALSE
  /\ UNCHANGED <<body, hasMusic, pc, paramVars, probeVars, plan, headers,
                 stderr, chunks, listening, errResponses>>

\* ff 'error' (the executable could not be started)
FfError ==
  /\ ff = "errPending"
  /\ ff' = "failed"
  /\ exitCode' = "-2"
  /\ rmCount' = cleanup(rmCount)
  /\ IF ~res.headersSent
     THEN /\ res' = json500(res, "FFmpeg spawn failed", "Error: spawn ffmpeg ENOENT")
          /\ errResponses' = errResponses + 1
     ELSE UNCHANGED <<res, errResponses>>
  /\ UNCHANGED <<body, hasMusic, pc, paramVars, probeVars, plan, headers,
                 stderr, chunks, piped, listening, killCalls, killSignal>>

\* ff 'close': the renderer has ended and its stdio streams are closed
FfClose ==
  /\ ff \in {"drained", "failed"}
  /\ ff' = "closed"
  /\ rmCount' = cleanup(rmCount)
  /\ IF exitCode # "0" /\ ~res.headersSent
     THEN /\ res' = json500(res, "Render failed", stderr)
          /\ errResponses' = errResponses + 1
     ELSE UNCHANGED <<res, errResponses>>
  /\ UNCHANGED <<body, hasMusic, pc, paramVars, probeVars, plan, headers,
                 exitCode, stderr, chunks, piped, listening, killCalls, killSignal>>

----------------------------------------------------------------------------
(* Specifications *)

NextResolve == ParseInputs \/ ProbeSettles \/ BuildGraph \/ SetHeaders

\* parameter and duration resolution up to the response headers, for every
\* request of at most MaxSupplied fields
SpecResolve == InitResolve /\ [][NextResolve]_vars

Next ==
  \/ ParseInputs \/ ProbeSettles \/ BuildGraph \/ SetHeaders
  \/ SpawnFfmpeg \/ StderrData \/ StdoutData \/ FfExit \/ StdoutEnd
  \/ ClientGoneEarly \/ ResError \/ ResClose \/ FfError \/ FfClose

\* the whole life of a request
Spec == Init /\ [][Next]_vars

\* the event loop delivers every event that is pending: the 'error' of a
\* failed spawn, the end of the stdout of an ended renderer, its 'close'
FairSpec ==
  Spec /\ WF_vars(FfError) /\ WF_vars(StdoutEnd) /\ WF_vars(FfClose)

----------------------------------------------------------------------------
(* Properties *)

\* a termination event of the render session has been handled
Terminated == res.closed \/ res.errored \/ ff \in {"failed", "closed"}

\* C1: however many termination events (response 'close', response 'error',
\* renderer 'close', renderer 'error') arrive after the spawn, the temp file
\* is removed exactly once and ff.kill is called at most once.
C1_CleanupOnce ==
  /\ (hasMusic /\ Terminated) => rmCount = 1
  /\ killCalls <= 1

\* the render has left Spawned/Streaming: the renderer ended or could not
\* be started, the response closed or failed, or the handler caught an
\* exception
LeftRender ==
  \/ ff \in {"errPending", "failed", "exited", "drained", "closed"}
  \/ res.closed \/ res.errored
  \/ pc = "caught"

\* C2: for a request with an uploaded music file, every way out of
\* Spawned/Streaming leads to at least one request to remove the temp file.
C2_CleanupReached == (hasMusic /\ LeftRender) ~> (rmCount >= 1)

C2_Witness ==
  /\ hasMusic /\ ff = "closed" /\ exitCode = "1" /\ res.bodyBytes > 0
  /\ ~res.closed /\ ~res.errored /\ rmCount >= 1

\* C3: when the response closes or fails while the renderer is running, the
\* handling of that event kills the renderer with SIGKILL (it ends at once)
\* and requests the removal of the temp file.
C3_AbortKills ==
  [][ ( /\ ff = "running"
        /\ \/ res'.closed /\ ~res.closed
           \/ res'.errored /\ ~res.errored )
      => ( /\ killCalls' = killCalls + 1
           /\ killSignal' = "SIGKILL"
           /\ ff' = "exited" /\ exitCode' = "null"
           /\ hasMusic => rmCount' = rmCount + 1 ) ]_vars

C3_Witness ==
  /\ hasMusic /\ res.closed /\ res.bodyBytes > 0 /\ ~res.finished
  /\ exitCode = "null" /\ killSignal = "SIGKILL" /\ killCalls = 1 /\ rmCount = 1

\* C4: when the renderer ends with a non-zero status or cannot be started
\* (and the client has not gone away): with no body byte sent the response
\* is a 500 naming the failure and carrying the diagnostics, and with bytes
\* already sent no error response is written.  A renderer that fails without
\* any output gives a 500, not an empty 200.
C4_FailureIs500 ==
  (ff = "closed" /\ exitCode \in {"1", "-2"} /\ ~res.closed /\ ~res.errored)
  => IF res.bodyBytes = 0
     THEN /\ res.statusCode = 500
          /\ res.json.error = (IF exitCode = "1" THEN "Render failed" ELSE "FFmpeg spawn failed")
          /\ exitCode = "1" => res.json.details = stderr
     ELSE errResponses = 0 /\ res.statusCode = 200

\* C5: once the response has closed or failed, no 500 response is written
\* for the request, whatever event arrives afterwards.
C5_NoErrorAfterAbort ==
  [][ (res.closed \/ res.errored) => errResponses' = errResponses ]_vars

\* what the documented resolution of one numeric field gives: a decimal text
\* clamped to the range, anything else the default
Resolved(raw, def, min, max) ==
  IF raw.k = "decimal"
  THEN Fin(IF raw.v < min THEN min ELSE IF raw.v > max THEN max ELSE raw.v)
  ELSE Fin(def)

\* C6: every numeric field resolves to the clamped value of a finite numeric
\* input and to the documented default of an absent or non-finite input
\* (missing, non-numeric text, empty string, NaN, Infinity).
C6_FieldsResolved ==
  pc # "start" =>
    /\ carrier   = Resolved(body["carrier"],   Milli(420), Milli(100), Milli(1000))
    /\ beatStart = Resolved(body["beatStart"], Milli(12), 0, Milli(40))
    /\ beatEnd   = Resolved(body["beatEnd"],   Milli(14), 0, Milli(40))
    /\ toneGain  = Resolved(body["toneGain"],  250, 0, Milli(1))
    /\ musicGain = Resolved(body["musicGain"], 350, 0, Milli(1))
    /\ fadeSec   = Resolved(body["fadeSec"],   Milli(3), 0, Milli(10))

\* the probe succeeded: the process started, closed with 0 and printed a
\* decimal number
ProbeSucceeded == ~probeOut.err /\ probeOut.code = 0 /\ probeOut.out.k = "decimal"

\* C7: (1) a finite durationSec of the caller is clamped to [60,7200] and
\* used without a probe; (2) otherwise, with music, the probe is invoked
\* once, its result rounded and clamped, and its failure gives 1800 without
\* an error response; (3) otherwise the duration is 1800.
C7_DurationOrder ==
  plan.built =>
    LET raw == body["durationSec"]
    IN  IF raw.k = "decimal"
        THEN /\ plan.dur = Resolved(raw, Milli(1800), Milli(60), Milli(7200))
             /\ probeCalls = 0
        ELSE IF hasMusic
        THEN /\ probeCalls = 1
             /\ errResponses = 0
             /\ IF ProbeSucceeded
                THEN LET sec == ((2 * probeOut.out.v + 1000) \div 2000) * 1000
                     IN  plan.dur = Fin(IF sec < Milli(60) THEN Milli(60)
                                        ELSE IF sec > Milli(7200) THEN Milli(7200) ELSE sec)
                ELSE plan.dur = Fin(Milli(1800))
        ELSE plan.dur = Fin(Milli(1800)) /\ probeCalls = 0

\* C8: when the signal graph is built and the renderer spawned, durationSec
\* is a finite number in [60,7200] and a probe that was invoked has settled.
C8_DurationResolved ==
  /\ plan.built =>
       /\ plan.dur.t = "fin" /\ plan.dur.v >= Milli(60) /\ plan.dur.v <= Milli(7200)
       /\ plan.kDen = plan.dur
       /\ plan.probe # "pending"
       /\ probeCalls > 0 => plan.probe \in {"resolved", "rejected"}
  /\ ff # "none" => plan.built /\ durationSec = plan.dur /\ probe # "pending"

C8_Witness ==
  /\ plan.built /\ ff = "running" /\ probeCalls = 1 /\ plan.probe = "rejected"
  /\ plan.dur = Fin(Milli(1800))

\* C9: with avgBeat = (beatStartHz + beatEndHz) / 2 of the resolved pair, the
\* label is Delta iff avgBeat < 4, Theta iff 4 <= avgBeat < 8, Alpha iff
\* 8 <= avgBeat < 12, Beta iff 12 <= avgBeat <= 20 and Custom iff
\* avgBeat > 20.
C9_Labels ==
  plan.built =>
    LET twice == beatStart.v + beatEnd.v
    IN  /\ beatStart.v >= 0 /\ beatStart.v <= Milli(40)
        /\ beatEnd.v >= 0 /\ beatEnd.v <= Milli(40)
        /\ plan.avgBeat = twice
        /\ plan.label \in {"Delta", "Theta", "Alpha", "Beta", "Custom"}
        /\ plan.label = "Delta"  <=> twice < Milli(8)
        /\ plan.label = "Theta"  <=> (Milli(8) <= twice /\ twice < Milli(16))
        /\ plan.label = "Alpha"  <=> (Milli(16) <= twice /\ twice < Milli(24))
        /\ plan.label = "Beta"   <=> (Milli(24) <= twice /\ twice <= Milli(40))
        /\ plan.label = "Custom" <=> twice > Milli(40)

C9_Witness ==
  /\ plan.built /\ plan.label = "Beta"
  /\ beatStart = Fin(Milli(12)) /\ beatEnd = Fin(Milli(12))

HeaderNames ==
  { "Content-Type", "Content-Disposition", "X-Beat-Start-Hz", "X-Beat-End-Hz",
    "X-Carrier-Hz", "X-Duration-Sec", "X-Sample-Rate", "X-Bit-Depth", "X-Session-Label" }

\* C10: once the renderer is spawned, hence before any body byte, all nine
\* metadata headers are set, and the duration header carries the resolved
\* duration (finite, in [60,7200]), not the raw input.
C10_HeadersFirst ==
  (ff # "none" \/ res.bodyBytes > 0 \/ res.headersSent) =>
    /\ { h[1] : h \in headers } = HeaderNames
    /\ Cardinality(headers) = Cardinality(HeaderNames)
    /\ <<"Content-Type", "audio/wav">> \in headers
    /\ <<"X-Sample-Rate", "48000">> \in headers
    /\ <<"X-Bit-Depth", "24">> \in headers
    /\ <<"X-Beat-Start-Hz", String(beatStart)>> \in headers
    /\ <<"X-Beat-End-Hz", String(beatEnd)>> \in headers
    /\ <<"X-Carrier-Hz", String(carrier)>> \in headers
    /\ <<"X-Session-Label", plan.label>> \in headers
    /\ isFinite(durationSec)
    /\ durationSec.v >= Milli(60) /\ durationSec.v <= Milli(7200)
    /\ <<"X-Duration-Sec", String(durationSec)>> \in headers

C10_Witness ==
  /\ res.bodyBytes > 0
  /\ body["durationSec"] = Decimal(Milli(30))
  /\ <<"X-Duration-Sec", "60">> \in headers

\* the request is over: nothing is pending any more
RequestEnded == ~ENABLED Next

\* C11: when the client goes away while the duration probe is pending, the
\* request still ends with no renderer left running and with the removal of
\* the temp upload requested.
C11_EarlyCloseCancels ==
  (res.destroyed /\ ~res.closed /\ RequestEnded)
  => (ff \notin {"running", "stalled"} /\ rmCount >= 1)

\* C12: a 500 response is written at most once per request, and never once
\* headers or body bytes have been sent.
C12_OneErrorResponse ==
  [][ errResponses' # errResponses
      => ( /\ errResponses = 0 /\ errResponses' = 1
           /\ ~res.headersSent /\ res.bodyBytes = 0
           /\ res'.statusCode = 500 /\ res'.headersSent ) ]_vars

C12_Witness ==
  /\ ff = "closed" /\ exitCode = "-2" /\ errResponses = 1
  /\ res.json.error = "FFmpeg spawn failed"

====
